---- MODULE Spec2Model ----
(***************************************************************************)
(* The NLP orchestrator of cltkv1 (src/cltkv1/nlp.py): construction        *)
(* (language resolution, pipeline selection) and analyze (a Doc threaded   *)
(* through the Processes of the pipeline, in order).                       *)
(*                                                                         *)
(* The Language Registry (get_lang), the default Pipeline classes, the Doc *)
(* data type and the Process implementations live outside nlp.py; they are *)
(* modelled from the specification and from the doctests of nlp.py.        *)
(***************************************************************************)
EXTENDS Naturals, Sequences, FiniteSets

VARIABLES ctor, nlp, pipelines, docs, calls

vars == <<ctor, nlp, pipelines, docs, calls>>

---------------------------------------------------------------------------
(* Bounds *)

\* Number of analyze calls made on the orchestrator (they may overlap).
MaxCalls == 2

\* Longest raw text, counted in tokens.
MaxTextLen == 1

---------------------------------------------------------------------------
(* Values *)

None == "None"

\* The language codes passed to the constructor: the five keys of the pipeline
\* registry, "axm" (known, no default pipeline) and "xxx" (unknown).
Codes == {"lat", "grc", "chu", "fro", "got", "axm", "xxx"}

\* Raw texts: sequences of at most MaxTextLen tokens; <<>> is the empty text.
Texts == UNION {[1..n -> {"a"}] : n \in 0..MaxTextLen}

\* The static table of the Language Registry, restricted to Codes.
KnownLanguages == {"lat", "grc", "chu", "fro", "got", "axm"}

\* get_lang(code): the Language descriptor, or UnknownLanguageError.
get_lang(code) ==
    IF code \in KnownLanguages
    THEN [ok |-> TRUE, language |-> [iso_639_3_code |-> code], error |-> None]
    ELSE [ok |-> FALSE, language |-> [iso_639_3_code |-> None],
          error |-> "UnknownLanguageError"]

\* A Process type: a task for a language.
Proc(task, lang) == [task |-> task, lang |-> lang]

\* A Pipeline object: description, ordered Process types, target language.
\* obj is the identity of the object (Python's `is`).
Pipeline(obj, description, processes, lang) ==
    [obj |-> obj, description |-> description, processes |-> processes,
     language |-> lang]

NoPipeline == Pipeline(None, None, <<>>, None)

\* The default Pipeline classes: instantiating one yields a new object ("new"
\* is the identity of the instance, distinct from every supplied object).
PipelineClass(cls, lang) ==
    Pipeline("new", cls, <<Proc("tokenize", lang), Proc("tag", lang)>>, lang)

LatinPipeline == PipelineClass("LatinPipeline", "lat")

GreekPipeline == PipelineClass("GreekPipeline", "grc")

OCSPipeline == PipelineClass("OCSPipeline", "chu")

OldFrenchPipeline == PipelineClass("OldFrenchPipeline", "fro")

GothicPipeline == PipelineClass("GothicPipeline", "got")

\* The module-level registry `pipelines` as loaded.
PipelinesAtLoad ==
    [code \in {"lat", "grc", "chu", "fro", "got"} |->
        CASE code = "lat" -> LatinPipeline
          [] code = "grc" -> GreekPipeline
          [] code = "chu" -> OCSPipeline
          [] code = "fro" -> OldFrenchPipeline
          [] code = "got" -> GothicPipeline]

\* The Pipeline objects a caller supplies as custom_pipeline.
CustomPipelines ==
    { Pipeline("a_pipeline", "A custom Latin pipeline",
               <<Proc("tokenize", "lat")>>, "lat"),
      Pipeline("misordered", "tag before tokenize",
               <<Proc("tag", "lat"), Proc("tokenize", "lat")>>, "lat"),
      Pipeline("empty", "no processes", <<>>, "lat") }

\* The values of the custom_pipeline argument; NoPipeline is the default None.
CustomArgs == CustomPipelines \cup {NoPipeline}

---------------------------------------------------------------------------
(* Doc *)

\* Doc(language=..., raw=...): no annotation populated.
Doc(language, raw) ==
    [language |-> language, raw |-> raw, words |-> <<>>, fields |-> {}]

NoDoc == Doc(None, <<>>)

\* The identity of a Doc object: the n-th Doc allocated during call `call`.
DocId(call, n) == [call |-> call, n |-> n]

NoDocId == DocId(0, 0)

\* One Word of a Doc; index_token is 1-based, pos is None until tagged.
Word(i, s) == [index_token |-> i, index_sentence |-> 0, string |-> s, pos |-> None]

\* The errors a Process raises.
ProcessError(type, p) == [type |-> type, process |-> p]

NoError == ProcessError(None, Proc(None, None))

\* process(input_doc=doc, language=code): a Process instance.
ProcessInstance(p, input_doc, language) ==
    [process |-> p, input_doc |-> input_doc, language |-> language]

NoProcess == ProcessInstance(Proc(None, None), NoDocId, None)

\* Whether the Process updates its input Doc in place (output_doc is the
\* input object) or puts out a new Doc object.
InPlace(p) == p.task = "tag"

\* a_process.run() on input Doc d, resources being available: the output Doc
\* (d plus the annotations of the task), or the error of a Process that does
\* not support the language or misses a field it requires.
ProcessRun(p, language, d) ==
    CASE p.lang # language ->
           [ok |-> FALSE, doc |-> NoDoc, error |-> ProcessError("UnsupportedLanguage", p)]
      [] p.task = "tokenize" ->
           [ok |-> TRUE,
            doc |-> [d EXCEPT !.words = [i \in 1..Len(d.raw) |-> Word(i, d.raw[i])],
                              !.fields = @ \cup {"words"}],
            error |-> NoError]
      [] p.task = "tag" /\ "words" \notin d.fields ->
           [ok |-> FALSE, doc |-> NoDoc, error |-> ProcessError("MissingField", p)]
      [] OTHER ->
           [ok |-> TRUE,
            doc |-> [d EXCEPT !.words = [i \in 1..Len(d.words) |->
                                            [d.words[i] EXCEPT !.pos = "tagged"]],
                              !.fields = @ \cup {"pos"}],
            error |-> NoError]

---------------------------------------------------------------------------
(* NLP.__init__ and NLP._get_pipeline *)

\* Truth value of the custom_pipeline argument: None is false, a Pipeline
\* object is true.
Truthy(custom_pipeline) == custom_pipeline # NoPipeline

\* A lookup that takes the first entry of the registry whatever the key.
GetPipelineAnyEntry(registry, language) ==
    IF language.iso_639_3_code \in DOMAIN registry
    THEN [ok |-> TRUE, pipeline |-> registry["lat"], error |-> None]
    ELSE [ok |-> FALSE, pipeline |-> NoPipeline, error |-> "UnimplementedLanguageError"]

\* A lookup that falls back to the Latin pipeline for a code that is no key.
GetPipelineFallback(registry, language) ==
    [ok |-> TRUE,
     pipeline |-> IF language.iso_639_3_code \in DOMAIN registry
                  THEN registry[language.iso_639_3_code] ELSE registry["lat"],
     error |-> None]

\* _get_pipeline: pipelines[code]() or UnimplementedLanguageError.
GetPipeline(registry, language) ==
    IF language.iso_639_3_code \in DOMAIN registry
    THEN [ok |-> TRUE, pipeline |-> registry[language.iso_639_3_code], error |-> None]
    ELSE [ok |-> FALSE, pipeline |-> NoPipeline, error |-> "UnimplementedLanguageError"]

\* Whether a pipeline suits a language code: it targets the code, each of its
\* Processes supports the code, and a tagging step follows a tokenizing one.
Compatible(pipeline, code) ==
    /\ pipeline.language = code
    /\ \A i \in 1..Len(pipeline.processes) :
          /\ pipeline.processes[i].lang = code
          /\ pipeline.processes[i].task = "tag" =>
                \E j \in 1..(i - 1) : pipeline.processes[j].task = "tokenize"

\* A selection that validates the supplied pipeline against the language and
\* refuses one that does not suit it.
SelectPipelineValidated(registry, language, custom_pipeline) ==
    IF ~Truthy(custom_pipeline)
    THEN GetPipeline(registry, language)
    ELSE IF Compatible(custom_pipeline, language.iso_639_3_code)
    THEN [ok |-> TRUE, pipeline |-> custom_pipeline, error |-> None]
    ELSE [ok |-> FALSE, pipeline |-> NoPipeline, error |-> "UnimplementedLanguageError"]

\* A selection that prefers the registered default to the supplied pipeline.
SelectPipelineDefaultFirst(registry, language, custom_pipeline) ==
    IF GetPipeline(registry, language).ok \/ ~Truthy(custom_pipeline)
    THEN GetPipeline(registry, language)
    ELSE [ok |-> TRUE, pipeline |-> custom_pipeline, error |-> None]

\* The pipeline expression of __init__:
\* custom_pipeline if custom_pipeline else self._get_pipeline().
SelectPipeline(registry, language, custom_pipeline) ==
    IF Truthy(custom_pipeline)
    THEN [ok |-> TRUE, pipeline |-> custom_pipeline, error |-> None]
    ELSE GetPipeline(registry, language)

\* A constructor that selects the pipeline before it resolves the language.
NewNLPSelectFirst(registry, language, custom_pipeline) ==
    LET lang == get_lang(language)
        sel == SelectPipeline(registry, [iso_639_3_code |-> language], custom_pipeline)
    IN  IF ~sel.ok
        THEN [ok |-> FALSE, error |-> sel.error,
              language |-> lang.language, pipeline |-> NoPipeline]
        ELSE IF ~lang.ok
        THEN [ok |-> FALSE, error |-> "UnknownLanguageError",
              language |-> lang.language, pipeline |-> NoPipeline]
        ELSE [ok |-> TRUE, error |-> None,
              language |-> lang.language, pipeline |-> sel.pipeline]

\* NLP(language, custom_pipeline): the orchestrator, or the error raised.
NewNLP(registry, language, custom_pipeline) ==
    LET lang == get_lang(language)
        sel == SelectPipeline(registry, lang.language, custom_pipeline)
    IN  IF ~lang.ok
        THEN [ok |-> FALSE, error |-> "UnknownLanguageError",
              language |-> lang.language, pipeline |-> NoPipeline]
        ELSE IF ~sel.ok
        THEN [ok |-> FALSE, error |-> sel.error,
              language |-> lang.language, pipeline |-> NoPipeline]
        ELSE [ok |-> TRUE, error |-> None,
              language |-> lang.language, pipeline |-> sel.pipeline]

NoNLP == [language |-> [iso_639_3_code |-> None], pipeline |-> NoPipeline]

\* The record of the constructor call: its arguments and its outcome.
NoCtor == [state |-> "none", language |-> None, custom_pipeline |-> NoPipeline,
           raised |-> None]

Construct(language, custom_pipeline) ==
    /\ ctor.state = "none"
    /\ LET r == NewNLP(pipelines, language, custom_pipeline)
       IN  /\ ctor' = [state |-> IF r.ok THEN "constructed" ELSE "raised",
                       language |-> language,
                       custom_pipeline |-> custom_pipeline,
                       raised |-> r.error]
           /\ nlp' = IF r.ok THEN [language |-> r.language, pipeline |-> r.pipeline]
                             ELSE NoNLP
    /\ UNCHANGED <<pipelines, docs, calls>>

---------------------------------------------------------------------------
(* NLP.analyze *)

\* One analyze call: where it stands (pc), its argument, its locals (doc,
\* a_process, the position k of the loop in pipeline.processes), what it
\* handed back to the caller (ret, err), and its history (steps, result, and
\* after_mutation: the call began after the caller had changed a returned Doc).
NoCall ==
    [pc |-> "idle", text |-> <<>>, doc |-> NoDocId, k |-> 0, a_process |-> NoProcess,
     steps |-> <<>>, ret |-> NoDocId, result |-> NoDoc, raised |-> NoError,
     err |-> NoError, after_mutation |-> FALSE]

CallIds == 1..MaxCalls

\* The content of the Doc object `id`.
Content(heap, id) == heap[id.call][id.n]

\* The heap with `content` stored in object `id` (allocated when new).
Store(heap, id, content) ==
    [heap EXCEPT ![id.call] =
        IF id.n = Len(@) + 1 THEN Append(@, content) ELSE [@ EXCEPT ![id.n] = content]]

\* An allocation that hands every call the one Doc object of the orchestrator.
FreshDocShared(heap, c) == DocId(1, 1)

\* A Doc object no one holds yet, allocated during call c.
FreshDoc(heap, c) == DocId(c, Len(heap[c]) + 1)

\* A start that reuses the Doc an earlier call returned, with the new raw text.
InitialDocCached(language, text) ==
    IF \E c \in CallIds : calls[c].pc = "DONE"
    THEN LET c == CHOOSE c \in CallIds : calls[c].pc = "DONE"
         IN  [Content(docs, calls[c].ret) EXCEPT !.raw = text]
    ELSE Doc(language.iso_639_3_code, text)

\* A start that stamps the language and leaves the raw text out.
InitialDocNoRaw(language, text) == Doc(language.iso_639_3_code, <<>>)

\* The Doc analyze starts from: Doc(language=self.language.iso_639_3_code, raw=text).
InitialDoc(language, text) == Doc(language.iso_639_3_code, text)

\* doc = Doc(language=self.language.iso_639_3_code, raw=text)
AnalyzeStart(c, text) ==
    /\ ctor.state = "constructed"
    /\ calls[c].pc = "idle"
    /\ c > 1 => calls[c - 1].pc # "idle"
    /\ docs' = Store(docs, FreshDoc(docs, c), InitialDoc(nlp.language, text))
    /\ calls' = [calls EXCEPT ![c] =
                   [@ EXCEPT !.pc = "for", !.text = text, !.doc = FreshDoc(docs, c),
                             !.after_mutation =
                                 \E d \in CallIds :
                                     /\ calls[d].pc = "DONE"
                                     /\ Content(docs, calls[d].ret) # calls[d].result]]
    /\ UNCHANGED <<ctor, nlp, pipelines>>

\* A loop that walks the list from its end.
NextProcessReversed(processes, k) == processes[Len(processes) - k]

\* The Process type the loop takes next, k steps being behind it.
NextProcess(processes, k) == processes[k + 1]

\* Whether the loop has a Process left to take.
HasNext(processes, k) == k < Len(processes)

\* A language argument taken from the target language of the pipeline.
ProcessLanguageOfPipeline(orchestrator) == orchestrator.pipeline.language

\* The language argument every Process instance is given.
ProcessLanguage(orchestrator) == orchestrator.language.iso_639_3_code

\* A loop that consumes the list of the pipeline: it pops the Process it takes.
AnalyzeInstantiatePop(c) ==
    /\ calls[c].pc = "for"
    /\ nlp.pipeline.processes # <<>>
    /\ calls' = [calls EXCEPT ![c] =
                   [@ EXCEPT !.pc = "run",
                             !.k = @ + 1,
                             !.a_process = ProcessInstance(
                                 Head(nlp.pipeline.processes),
                                 calls[c].doc, ProcessLanguage(nlp))]]
    /\ nlp' = [nlp EXCEPT !.pipeline.processes = Tail(@)]
    /\ UNCHANGED <<ctor, pipelines, docs>>

\* A loop that does not advance: it takes the same Process again.
AnalyzeInstantiateStuck(c) ==
    /\ calls[c].pc = "for"
    /\ nlp.pipeline.processes # <<>>
    /\ Len(calls[c].steps) <= Len(nlp.pipeline.processes)
    /\ calls' = [calls EXCEPT ![c] =
                   [@ EXCEPT !.pc = "run",
                             !.k = 1,
                             !.a_process = ProcessInstance(
                                 Head(nlp.pipeline.processes),
                                 calls[c].doc, ProcessLanguage(nlp))]]
    /\ UNCHANGED <<ctor, nlp, pipelines, docs>>

\* for process in self.pipeline.processes:
\*     a_process = process(input_doc=doc, language=self.language.iso_639_3_code)
AnalyzeInstantiate(c) ==
    /\ calls[c].pc = "for"
    /\ HasNext(nlp.pipeline.processes, calls[c].k)
    /\ calls' = [calls EXCEPT ![c] =
                   [@ EXCEPT !.pc = "run",
                             !.k = @ + 1,
                             !.a_process = ProcessInstance(
                                 NextProcess(nlp.pipeline.processes, calls[c].k),
                                 calls[c].doc, ProcessLanguage(nlp))]]
    /\ UNCHANGED <<ctor, nlp, pipelines, docs>>

\* A handler that wraps the error of the Process in one of its own.
PropagateWrapped(e) == ProcessError("RuntimeError", e.process)

\* What the caller of analyze receives of an error raised inside a Process:
\* analyze has no handler, the error leaves it as raised.
Propagate(e) == e

\* A loop that keeps the Doc it had and drops the output of the step.
NextDocKept(output_doc, doc) == doc

\* The Doc analyze binds to `doc` after a step: doc = a_process.output_doc.
NextDoc(output_doc, doc) == output_doc

\* One entry of the call's history: the Process run, the language code and
\* the Doc it was given (object and content) and the Doc it put out.
Step(p, language, inId, in, outId, out) ==
    [process |-> p, language |-> language, input_doc |-> inId, input |-> in,
     output_doc |-> outId, output |-> out]

\* a_process.run(); doc = a_process.output_doc -- the Process succeeds.
AnalyzeRunOk(c) ==
    LET ap == calls[c].a_process
        r == ProcessRun(ap.process, ap.language, Content(docs, ap.input_doc))
        outId == IF InPlace(ap.process) THEN ap.input_doc ELSE FreshDoc(docs, c)
    IN  /\ calls[c].pc = "run"
        /\ r.ok
        /\ docs' = Store(docs, outId, r.doc)
        /\ calls' = [calls EXCEPT ![c] =
                       [@ EXCEPT !.pc = "for",
                                 !.doc = NextDoc(outId, calls[c].doc),
                                 !.a_process = NoProcess,
                                 !.steps = Append(@, Step(ap.process, ap.language,
                                     ap.input_doc, Content(docs, ap.input_doc),
                                     outId, r.doc))]]
        /\ UNCHANGED <<ctor, nlp, pipelines>>

\* a_process.run() raises: the error of ProcessRun, or a missing resource.
AnalyzeRunFail(c, resource) ==
    LET ap == calls[c].a_process
        r == ProcessRun(ap.process, ap.language, Content(docs, ap.input_doc))
        e == IF resource THEN ProcessError("FileNotFoundError", ap.process) ELSE r.error
    IN  /\ calls[c].pc = "run"
        /\ resource \/ ~r.ok
        /\ calls' = [calls EXCEPT ![c] =
                       [@ EXCEPT !.pc = "FAILED", !.raised = e, !.err = Propagate(e)]]
        /\ UNCHANGED <<ctor, nlp, pipelines, docs>>

\* A return of the Doc the call began with.
ReturnValueInitial(call) ==
    IF call.steps = <<>> THEN call.doc ELSE call.steps[1].input_doc

\* The value of `return doc`.
ReturnValue(call) == call.doc

\* return doc, the loop being exhausted.
AnalyzeReturn(c) ==
    /\ calls[c].pc = "for"
    /\ ~HasNext(nlp.pipeline.processes, calls[c].k)
    /\ calls' = [calls EXCEPT ![c] =
                   [@ EXCEPT !.pc = "DONE", !.ret = ReturnValue(calls[c]),
                             !.result = Content(docs, ReturnValue(calls[c]))]]
    /\ UNCHANGED <<ctor, nlp, pipelines, docs>>

\* analyze as a function of the text, no Process lacking a resource: the
\* Processes of the list applied in order, from the Doc `d`, up to the first
\* error.
RECURSIVE RunPipeline(_, _, _)
RunPipeline(processes, language, d) ==
    IF processes = <<>>
    THEN [ok |-> TRUE, doc |-> d, error |-> NoError]
    ELSE LET r == ProcessRun(Head(processes), language, d)
         IN  IF r.ok THEN RunPipeline(Tail(processes), language, r.doc) ELSE r

\* The outcome of orchestrator.analyze(text) run on its own.
Alone(orchestrator, text) ==
    RunPipeline(orchestrator.pipeline.processes,
                orchestrator.language.iso_639_3_code,
                Doc(orchestrator.language.iso_639_3_code, text))

\* The caller changes the Doc a finished call returned to it.
Mutated(d) == [d EXCEPT !.language = "mutated", !.words = <<>>, !.fields = {}]

MutateReturned(c) ==
    /\ calls[c].pc = "DONE"
    /\ Content(docs, calls[c].ret) # Mutated(Content(docs, calls[c].ret))
    /\ docs' = Store(docs, calls[c].ret, Mutated(Content(docs, calls[c].ret)))
    /\ UNCHANGED <<ctor, nlp, pipelines, calls>>

---------------------------------------------------------------------------
(* Specification *)

Init ==
    /\ ctor = NoCtor
    /\ nlp = NoNLP
    /\ pipelines = PipelinesAtLoad
    /\ docs = [c \in CallIds |-> <<>>]
    /\ calls = [c \in CallIds |-> NoCall]

Next ==
    \/ \E language \in Codes, custom_pipeline \in CustomArgs :
          Construct(language, custom_pipeline)
    \/ \E c \in CallIds, text \in Texts : AnalyzeStart(c, text)
    \/ \E c \in CallIds : AnalyzeInstantiate(c)
    \/ \E c \in CallIds : AnalyzeRunOk(c)
    \/ \E c \in CallIds, resource \in BOOLEAN : AnalyzeRunFail(c, resource)
    \/ \E c \in CallIds : AnalyzeReturn(c)
    \/ \E c \in CallIds : MutateReturned(c)

Spec == Init /\ [][Next]_vars

\* A step of analyze call c: the statement at which the call stands.
CallStep(c) ==
    \/ AnalyzeInstantiate(c)
    \/ AnalyzeRunOk(c)
    \/ \E resource \in BOOLEAN : AnalyzeRunFail(c, resource)
    \/ AnalyzeReturn(c)

\* analyze is synchronous and has no suspension point: a call that has begun
\* goes on to its next statement, every Process it runs coming to an end.
FairSpec == Spec /\ \A c \in CallIds : WF_vars(CallStep(c))

---------------------------------------------------------------------------
(* Construction: claims C1 - C3 *)

\* No Doc object exists and no analyze call has begun.
NoDocument ==
    \A c \in CallIds : docs[c] = <<>> /\ calls[c].pc = "idle"

\* C1: a constructor call with a language code the Language Registry does not
\* know raises UnknownLanguageError -- with or without a custom pipeline, and
\* never UnimplementedLanguageError -- and leaves no orchestrator and no Doc.
C1_UnknownLanguage ==
    (ctor.state # "none" /\ ~get_lang(ctor.language).ok)
        => /\ ctor.state = "raised"
           /\ ctor.raised = "UnknownLanguageError"
           /\ nlp = NoNLP
           /\ NoDocument

\* A constructor call with an unknown code and a custom pipeline has raised.
C1_Witness ==
    /\ ctor.state = "raised"
    /\ ctor.language = "xxx"
    /\ ctor.custom_pipeline \in CustomPipelines

\* C2: without a custom pipeline, a known code that is no key of the pipeline
\* registry raises UnimplementedLanguageError, and a known code that is a key
\* raises nothing and yields the orchestrator.
C2_UnimplementedLanguage ==
    (ctor.state # "none" /\ get_lang(ctor.language).ok
                         /\ ctor.custom_pipeline = NoPipeline)
        => IF ctor.language \in DOMAIN pipelines
           THEN ctor.state = "constructed" /\ ctor.raised = None
           ELSE /\ ctor.state = "raised"
                /\ ctor.raised = "UnimplementedLanguageError"
                /\ nlp = NoNLP

\* "axm", known and without a default pipeline, was passed alone and raised.
C2_Witness ==
    /\ ctor.state = "raised"
    /\ ctor.language = "axm"
    /\ ctor.custom_pipeline = NoPipeline
    /\ ctor.raised = "UnimplementedLanguageError"

\* C3: with a custom pipeline and a known code, construction succeeds, also
\* for a code without a registered default, and the orchestrator's pipeline
\* is the supplied object itself.
C3_CustomPipelineIdentity ==
    (ctor.state # "none" /\ get_lang(ctor.language).ok
                         /\ ctor.custom_pipeline \in CustomPipelines)
        => /\ ctor.state = "constructed"
           /\ ctor.raised = None
           /\ nlp.pipeline = ctor.custom_pipeline
           /\ nlp.pipeline.obj = ctor.custom_pipeline.obj
           /\ nlp.language.iso_639_3_code = ctor.language

\* An orchestrator for "axm", which has no default, holds the supplied pipeline.
C3_Witness ==
    /\ ctor.state = "constructed"
    /\ ctor.language = "axm"
    /\ ctor.custom_pipeline \in CustomPipelines
    /\ nlp.pipeline.obj = ctor.custom_pipeline.obj

---------------------------------------------------------------------------
(* analyze, one call: claims C4 - C6 *)

\* The Process types of the steps a call has completed, in order.
Executed(call) == [i \in 1..Len(call.steps) |-> call.steps[i].process]

\* C4: the Processes a call has executed are a prefix of the pipeline's list,
\* in declaration order and each once; a Process is instantiated only when
\* all steps before it have finished, and it is the next of the list; a call
\* that completes has executed exactly the list.
C4_DeclarationOrder ==
    \A c \in CallIds :
        LET call == calls[c]
            processes == nlp.pipeline.processes
        IN  /\ Len(call.steps) <= Len(processes)
            /\ Executed(call) = SubSeq(processes, 1, Len(call.steps))
            /\ call.pc \in {"run", "FAILED"} =>
                  /\ call.k = Len(call.steps) + 1
                  /\ call.k <= Len(processes)
                  /\ call.a_process.process = processes[call.k]
            /\ call.pc = "for" => call.k = Len(call.steps)
            /\ call.pc = "DONE" => Executed(call) = processes

\* A call on a two-step pipeline has completed.
C4_Witness ==
    \E c \in CallIds :
        /\ calls[c].pc = "DONE"
        /\ Len(nlp.pipeline.processes) = 2
        /\ Len(calls[c].steps) = 2

\* The Doc object and content a call's next Process is handed, from its history.
Threaded(c) ==
    IF calls[c].steps = <<>>
    THEN [id |-> DocId(c, 1), doc |-> InitialDoc(nlp.language, calls[c].text)]
    ELSE [id |-> calls[c].steps[Len(calls[c].steps)].output_doc,
          doc |-> calls[c].steps[Len(calls[c].steps)].output]

\* C5: the first Process of a call is given the initial Doc (language code of
\* the orchestrator, raw text), every later Process is given the very Doc the
\* Process before it put out, annotations included, and the Doc returned is
\* the output of the last Process.
C5_DocThreading ==
    \A c \in CallIds :
        LET call == calls[c]
        IN  /\ \A i \in 1..Len(call.steps) :
                  IF i = 1
                  THEN /\ call.steps[i].input = InitialDoc(nlp.language, call.text)
                       /\ call.steps[i].input_doc = DocId(c, 1)
                  ELSE /\ call.steps[i].input = call.steps[i - 1].output
                       /\ call.steps[i].input_doc = call.steps[i - 1].output_doc
                       /\ call.steps[i - 1].output.fields \subseteq call.steps[i].input.fields
            /\ call.pc \in {"run", "FAILED"} =>
                  /\ call.a_process.input_doc = Threaded(c).id
                  /\ Content(docs, call.a_process.input_doc) = Threaded(c).doc
            /\ call.pc = "DONE" =>
                  /\ call.ret = Threaded(c).id
                  /\ call.result = Threaded(c).doc

\* The second Process of a call has run on a Doc that carries the words the
\* first one produced.
C5_Witness ==
    \E c \in CallIds :
        /\ Len(calls[c].steps) = 2
        /\ calls[c].steps[1].output.words # <<>>
        /\ calls[c].steps[2].input.words = calls[c].steps[1].output.words
        /\ calls[c].pc = "DONE"

\* A call that failed at step k: k - 1 steps completed, the failing Process is
\* the k-th of the list, the caller holds the error as the Process raised it,
\* and no Doc was returned.
FailedAtStep(c) ==
    /\ calls[c].raised # NoError
    /\ calls[c].err = calls[c].raised
    /\ calls[c].ret = NoDocId
    /\ calls[c].result = NoDoc
    /\ Len(calls[c].steps) = calls[c].k - 1
    /\ calls[c].a_process.process = nlp.pipeline.processes[calls[c].k]
    /\ calls[c].raised.process = calls[c].a_process.process

\* C6: a call whose Process at step k fails is FAILED for good: it returns no
\* Doc, hands the caller the error unmodified, and from then on instantiates
\* and executes nothing (the failing step is not retried, no later step runs).
C6_FailFast ==
    /\ [](\A c \in CallIds : calls[c].pc = "FAILED" => FailedAtStep(c))
    /\ [][\A c \in CallIds : calls[c].pc = "FAILED" => calls'[c] = calls[c]]_vars
    /\ [][\A c \in CallIds : calls[c].raised # calls'[c].raised
             => calls'[c].pc = "FAILED"]_vars

\* A call failed at its first step of two, the second Process never ran.
C6_Witness ==
    \E c \in CallIds :
        /\ calls[c].pc = "FAILED"
        /\ calls[c].k = 1
        /\ Len(nlp.pipeline.processes) = 2
        /\ calls[c].steps = <<>>

---------------------------------------------------------------------------
(* analyze, several calls: claims C7 - C10 *)

\* The Doc objects call c holds or has held.
DocsOf(c) ==
    ({calls[c].doc, calls[c].ret, calls[c].a_process.input_doc}
        \cup {calls[c].steps[i].input_doc : i \in 1..Len(calls[c].steps)}
        \cup {calls[c].steps[i].output_doc : i \in 1..Len(calls[c].steps)})
    \ {NoDocId}

\* C7: every call starts from a Doc object created for it, and its outcome is
\* a function of its own text and of the orchestrator's language and pipeline
\* alone, whatever earlier calls did and whatever the caller did to the Docs
\* they returned.
C7_NoCrossCallState ==
    \A c \in CallIds :
        LET call == calls[c]
            alone == Alone(nlp, call.text)
        IN  /\ call.pc # "idle" =>
                  /\ \A id \in DocsOf(c) : id.call = c
                  /\ \A d \in CallIds \ {c} : DocId(c, 1) \notin DocsOf(d)
            /\ call.pc = "DONE" => alone.ok /\ call.result = alone.doc
            /\ (call.pc = "FAILED" /\ call.raised.type # "FileNotFoundError") =>
                  ~alone.ok /\ call.raised = alone.error

\* The caller changed the Doc the first call returned, and the second call,
\* begun after that on another text, has completed.
C7_Witness ==
    /\ calls[1].pc = "DONE"
    /\ Content(docs, calls[1].ret) # calls[1].result
    /\ calls[2].pc = "DONE"
    /\ calls[2].after_mutation
    /\ calls[2].text # calls[1].text
    /\ calls[2].result.words # <<>>

\* The orchestrator was built for a key of the registry without a custom pipeline.
DefaultConstructed ==
    /\ ctor.state = "constructed"
    /\ ctor.custom_pipeline = NoPipeline
    /\ ctor.language \in DOMAIN pipelines

C9_ConcurrentCalls ==
    /\ \A c, d \in CallIds : c # d => DocsOf(c) \cap DocsOf(d) = {}
    /\ \A c \in CallIds :
          /\ calls[c].pc = "run" => calls[c].a_process.input_doc = calls[c].doc
          /\ calls[c].pc = "DONE" =>
                /\ calls[c].ret = calls[c].doc
                /\ calls[c].result = Alone(nlp, calls[c].text).doc

\* The second call began after the first and completed its two steps while
\* a Process of the first was still running.
C9_Witness ==
    /\ calls[1].pc = "run"
    /\ calls[2].pc = "DONE"
    /\ Len(calls[2].steps) = 2
    /\ calls[2].text # calls[1].text

\* C10: once the orchestrator is built, no step -- of a call that completes
\* or of one that fails -- changes its language, its pipeline or the pipeline
\* registry; the pipeline is the one construction selected.
C10_AnalyzeFrame ==
    /\ [][ctor.state = "constructed" =>
             (nlp' = nlp /\ pipelines' = pipelines /\ ctor' = ctor)]_vars
    /\ [](pipelines = PipelinesAtLoad)
    /\ [](ctor.state = "constructed" =>
             /\ nlp.pipeline =
                  NewNLP(PipelinesAtLoad, ctor.language, ctor.custom_pipeline).pipeline
             /\ nlp.language = get_lang(ctor.language).language)

\* One call has completed and another has failed on the same orchestrator.
C10_Witness ==
    \E c, d \in CallIds :
        /\ calls[c].pc = "DONE"
        /\ calls[d].pc = "FAILED"
        /\ Len(nlp.pipeline.processes) = 2

---------------------------------------------------------------------------
(* Custom pipelines: claim C11 *)

\* The errors by which a pipeline that does not suit the language shows.
MismatchErrors == {"UnsupportedLanguage", "MissingField"}

---------------------------------------------------------------------------
(* The Doc across a run: claim C12 *)

\* Word v carries every value Word w has populated, at the same token index.
Keeps(v, w) ==
    /\ v.index_token = w.index_token
    /\ v.index_sentence = w.index_sentence
    /\ v.string = w.string
    /\ w.pos # None => v.pos = w.pos

\* Doc e carries every annotation Doc d has populated: the same fields and
\* more, and for each token of d the same index and the populated values.
Preserves(e, d) ==
    /\ d.fields \subseteq e.fields
    /\ Len(d.words) <= Len(e.words)
    /\ \A t \in 1..Len(d.words) : Keeps(e.words[t], d.words[t])

---------------------------------------------------------------------------
(* The state machine of a call: claim C13 *)

\* The state of a call: INIT once its Doc exists and no Process was taken,
\* RUN_STEP from the first Process on, DONE on return, FAILED on an error.
Phase(call) ==
    CASE call.pc = "idle" -> "IDLE"
      [] call.pc = "for" /\ call.k = 0 -> "INIT"
      [] call.pc \in {"for", "run"} -> "RUN_STEP"
      [] OTHER -> call.pc

\* The transitions of the state machine (a call on an empty pipeline goes
\* from INIT to DONE with no RUN_STEP between).
PhaseMoves ==
    {<<"IDLE", "INIT">>, <<"INIT", "RUN_STEP">>, <<"INIT", "DONE">>,
     <<"RUN_STEP", "RUN_STEP">>, <<"RUN_STEP", "DONE">>, <<"RUN_STEP", "FAILED">>}

\* The Process executions of a call so far: the steps completed and the one
\* that is running or has failed.
Executions(call) ==
    Len(call.steps) + (IF call.pc \in {"run", "FAILED"} THEN 1 ELSE 0)

\* C13: a call moves INIT -> (RUN_STEP)* -> DONE or FAILED and by no other
\* transition; it executes at most n Processes for a pipeline of n steps; it
\* is DONE exactly when all n completed and none raised, FAILED exactly when
\* one raised; DONE and FAILED are terminal; and, every Process coming to an
\* end, the calls that have begun all reach DONE or FAILED (from some point
\* on no call is in INIT or RUN_STEP).
C13_CallStateMachine ==
    /\ [][\A c \in CallIds :
             \/ calls'[c] = calls[c]
             \/ <<Phase(calls[c]), Phase(calls'[c])>> \in PhaseMoves]_vars
    /\ [][\A c \in CallIds :
             calls[c].pc \in {"DONE", "FAILED"} => calls'[c] = calls[c]]_vars
    /\ [](\A c \in CallIds :
             /\ Executions(calls[c]) <= Len(nlp.pipeline.processes)
             /\ calls[c].pc = "DONE" <=>
                   /\ calls[c].ret # NoDocId
                   /\ Len(calls[c].steps) = Len(nlp.pipeline.processes)
                   /\ calls[c].raised = NoError
             /\ calls[c].pc = "FAILED" <=> calls[c].raised # NoError)
    /\ <>[](\A c \in CallIds : calls[c].pc \in {"idle", "DONE", "FAILED"})

\* A call on a two-step pipeline has reached DONE after two executions.
C13_Witness ==
    \E c \in CallIds :
        /\ Phase(calls[c]) = "DONE"
        /\ Executions(calls[c]) = 2
        /\ Len(nlp.pipeline.processes) = 2

---------------------------------------------------------------------------
(* Default selection: claim C14 *)

\* The class registered under each key of `pipelines`.
RegisteredClass(code) ==
    CASE code = "lat" -> "LatinPipeline"
      [] code = "grc" -> "GreekPipeline"
      [] code = "chu" -> "OCSPipeline"
      [] code = "fro" -> "OldFrenchPipeline"
      [] code = "got" -> "GothicPipeline"
      [] OTHER -> None

\* C14: without a custom pipeline, the orchestrator for a known code L holds
\* a new instance of the class registered under the key L itself, and a code
\* that is no key yields no pipeline at all (never that of another language).
C14_ExactLookup ==
    (ctor.state # "none" /\ get_lang(ctor.language).ok
                         /\ ctor.custom_pipeline = NoPipeline)
        => IF RegisteredClass(ctor.language) # None
           THEN /\ ctor.state = "constructed"
                /\ nlp.pipeline.description = RegisteredClass(ctor.language)
                /\ nlp.pipeline = pipelines[ctor.language]
                /\ nlp.pipeline.language = ctor.language
                /\ nlp.pipeline.obj = "new"
           ELSE /\ ctor.state = "raised"
                /\ nlp.pipeline = NoPipeline

\* The orchestrator for "got" holds an instance of GothicPipeline, not of
\* GreekPipeline, whose key begins alike.
C14_Witness ==
    /\ ctor.state = "constructed"
    /\ ctor.language = "got"
    /\ ctor.custom_pipeline = NoPipeline
    /\ nlp.pipeline.description = "GothicPipeline"
    /\ nlp.pipeline # pipelines["grc"]

---------------------------------------------------------------------------
(* The language code of a call: claim C15 *)

\* The Doc a call began with, as long as the call has not handed it out.
FirstDoc(c) ==
    IF calls[c].steps # <<>> THEN calls[c].steps[1].input
    ELSE IF calls[c].pc = "DONE" THEN calls[c].result
    ELSE Content(docs, DocId(c, 1))

\* C15: the initial Doc of a call is stamped with the resolved code of the
\* orchestrator, and every Process of the call -- those completed, the one
\* running, the one that failed -- was given that same code, also under a
\* custom pipeline that targets another language.
C15_OrchestratorLanguage ==
    \A c \in CallIds :
        calls[c].pc # "idle" =>
            /\ ctor.state = "constructed"
            /\ nlp.language.iso_639_3_code = ctor.language
            /\ FirstDoc(c).language = ctor.language
            /\ \A i \in 1..Len(calls[c].steps) :
                  calls[c].steps[i].language = ctor.language
            /\ calls[c].pc \in {"run", "FAILED"} =>
                  calls[c].a_process.language = ctor.language

\* Under a pipeline that targets "lat", a Process of the orchestrator for
\* "grc" was given "grc".
C15_Witness ==
    /\ ctor.language = "grc"
    /\ nlp.pipeline.language = "lat"
    /\ \E c \in CallIds :
          /\ calls[c].pc \in {"run", "FAILED"}
          /\ calls[c].a_process.language = "grc"
          /\ FirstDoc(c).language = "grc"

---------------------------------------------------------------------------
(* The empty pipeline: claim C16 *)

\* C16: on a pipeline without Processes a call instantiates and executes
\* nothing and never fails, and it returns the Doc it began with: the very
\* object, with the code of the orchestrator, the raw text of the call, and
\* no annotation.
C16_EmptyPipeline ==
    (ctor.state = "constructed" /\ nlp.pipeline.processes = <<>>) =>
        \A c \in CallIds :
            /\ calls[c].pc \in {"idle", "for", "DONE"}
            /\ calls[c].steps = <<>>
            /\ calls[c].k = 0
            /\ calls[c].a_process = NoProcess
            /\ calls[c].raised = NoError /\ calls[c].err = NoError
            /\ calls[c].pc = "DONE" =>
                  /\ calls[c].ret = DocId(c, 1)
                  /\ docs[c] # <<>> /\ Len(docs[c]) = 1
                  /\ calls[c].result.language = ctor.language
                  /\ calls[c].result.raw = calls[c].text
                  /\ calls[c].result.words = <<>>
                  /\ calls[c].result.fields = {}

\* A call on the empty pipeline has returned the Doc of a non-empty text.
C16_Witness ==
    /\ ctor.state = "constructed"
    /\ nlp.pipeline.processes = <<>>
    /\ \E c \in CallIds :
          /\ calls[c].pc = "DONE"
          /\ calls[c].text # <<>>
          /\ calls[c].result.raw = calls[c].text

====
